---------------------------- MODULE Spec2Model ----------------------------
(***************************************************************************)
(* A model of src/src/App.tsx: the amino-acid alignment form (App) and the *)
(* chunked, colour-coded renderer (AlignmentBlock).                        *)
(*                                                                         *)
(* Strings are sequences of one-character strings.  Time is measured in    *)
(* milliseconds; timers fire exactly when they are due (time never passes  *)
(* a due timer).                                                           *)
(***************************************************************************)
EXTENDS Integers, Sequences, FiniteSets, TLC

VARIABLES
    phase,       \* "form": no pair accepted yet, AlignmentBlock not rendered
                 \* "render": AlignmentBlock is called with props and state
                 \* "rendered": AlignmentBlock rendered once, its effect not yet run
                 \* "live": AlignmentBlock mounted, effect has run
                 \* "hung": the partition loop of a render never terminates
                 \* "unmounted": App (and AlignmentBlock) torn down
    aligned,     \* App state `aligned`: Null or [seq1, seq2]
    copied,      \* App state `copied`
    copyTimer,   \* ms left on the setTimeout of the [copied] effect, or NoTimer
    chunkSize,   \* AlignmentBlock state `chunkSize`
    chunks,      \* the chunk list built by the last render of AlignmentBlock
    width,       \* boxRef.current.clientWidth, set by the environment
    observing,   \* the ResizeObserver is observing the box
    obsPending,  \* the observer has an observation it has not delivered yet
    dTimer,      \* lodash debounce: ms left on timerId, or NoTimer
    dSince,      \* lodash debounce: ms since lastCallTime (saturating at the
                 \* wait), or NoTimer when lastCallTime is undefined
    dArgs,       \* lodash debounce: lastArgs is defined
    clipboard,   \* content of the system clipboard
    lastWrite,   \* argument of the last navigator.clipboard.writeText call,
                 \* NoString before the first
    lastMouseUp, \* history: what the last handleMouseUp did, "none" before
                 \* the first, "copied" or "skipped"
    burst,       \* history: resize events delivered since the last debounced
                 \* execution (or cancellation)
    lastRun,     \* history: the last execution of updateChunkSize, Null or
                 \* [by, events, changed]
    cancelled    \* history: teardown cancelled a pending debounced call

\* state of App
appVars == <<aligned, copied, copyTimer>>
\* state of the copy side
clipVars == <<clipboard, lastWrite, lastMouseUp>>
\* state of the render of AlignmentBlock
renderVars == <<phase, chunkSize, chunks>>
\* state of lodash debounce
debounceVars == <<dTimer, dSince, dArgs, burst>>
\* state of the ResizeObserver
observerVars == <<observing, obsPending>>

vars == <<phase, aligned, copied, copyTimer, chunkSize, chunks, width,
          observing, obsPending, dTimer, dSince, dArgs, clipboard,
          lastWrite, lastMouseUp, burst, lastRun, cancelled>>

-----------------------------------------------------------------------------
(* Bounds of the model *)

\* longest string drawn for the partition loop when it is checked on its own
MaxLen == 3
\* largest chunk size drawn for the partition loop when it is checked on its own
MaxChunk == 4
\* most resize events delivered between two debounced executions
MaxBurst == 3

-----------------------------------------------------------------------------
(* Program constants *)

DEFAULT_CHUNK_SIZE == 20
CHAR_WIDTH == 19
DEBOUNCE_WAIT == 150
COPIED_TIMEOUT == 1000

\* null where an object is expected
Null == [null |-> TRUE]
\* undefined where a string is expected
NoString == <<"undefined">>
\* undefined where a character is expected
Undefined == "undefined"
NoTimer == -1

Min(a, b) == IF a < b THEN a ELSE b

-----------------------------------------------------------------------------
(* Strings *)

LowerLetters == <<"a","b","c","d","e","f","g","h","i","j","k","l","m",
                  "n","o","p","q","r","s","t","u","v","w","x","y","z">>
UpperLetters == <<"A","B","C","D","E","F","G","H","I","J","K","L","M",
                  "N","O","P","Q","R","S","T","U","V","W","X","Y","Z">>

\* String.prototype.toUpperCase on one character
ToUpperChar(c) ==
    IF \E k \in 1..Len(LowerLetters) : LowerLetters[k] = c
    THEN UpperLetters[CHOOSE k \in 1..Len(LowerLetters) : LowerLetters[k] = c]
    ELSE c

ToUpperCase(s) == [k \in 1..Len(s) |-> ToUpperChar(s[k])]

\* the character class of AMINO_REGEX
AminoClass == {"A","R","N","D","C","E","Q","G","H","I","L","K","M","F",
               "P","S","T","W","Y","V","-"}

\* AMINO_REGEX.test(s): /^[ARNDCEQGHILKMFPSTWYV-]+$/i
AMINO_REGEX(s) ==
    /\ Len(s) >= 1
    /\ \A k \in 1..Len(s) : ToUpperChar(s[k]) \in AminoClass

\* String.prototype.slice(from, to) for 0 <= from <= to
Slice(s, from, to) == SubSeq(s, from + 1, Min(to, Len(s)))

\* s[i] with a 0-based index
CharAt(s, i) == IF i >= 0 /\ i < Len(s) THEN s[i + 1] ELSE Undefined

\* all strings over `alphabet` of length 0..n
RECURSIVE StringsUpTo(_, _)
StringsUpTo(alphabet, n) ==
    IF n = 0 THEN {<<>>}
    ELSE LET shorter == StringsUpTo(alphabet, n - 1)
         IN  shorter \cup {Append(s, c) : s \in {t \in shorter : Len(t) = n - 1},
                                           c \in alphabet}

-----------------------------------------------------------------------------
(* AlignmentBlock: the partition loop and the rendered highlights *)

\* the loop with both slices one character short
RECURSIVE PartitionLoopShortSlice(_, _, _, _, _)
PartitionLoopShortSlice(seq1, seq2, size, i, acc) ==
    IF ~(i < Len(seq1)) THEN acc
    ELSE PartitionLoopShortSlice(seq1, seq2, size, i + size,
             Append(acc, <<Slice(seq1, i, i + size - 1),
                           Slice(seq2, i, i + size - 1)>>))

\* the loop stopping before a last, shorter chunk
RECURSIVE PartitionLoopNoRemainder(_, _, _, _, _)
PartitionLoopNoRemainder(seq1, seq2, size, i, acc) ==
    IF ~(i + size <= Len(seq1)) THEN acc
    ELSE PartitionLoopNoRemainder(seq1, seq2, size, i + size,
             Append(acc, <<Slice(seq1, i, i + size), Slice(seq2, i, i + size)>>))

\* the loop slicing seq2 to the end of the string
RECURSIVE PartitionLoopOpenSlice(_, _, _, _, _)
PartitionLoopOpenSlice(seq1, seq2, size, i, acc) ==
    IF ~(i < Len(seq1)) THEN acc
    ELSE PartitionLoopOpenSlice(seq1, seq2, size, i + size,
             Append(acc, <<Slice(seq1, i, i + size), Slice(seq2, i, Len(seq2))>>))

\* for (let i = 0; i < seq1.length; i += chunkSize) chunks.push([...])
RECURSIVE PartitionLoop(_, _, _, _, _)
PartitionLoop(seq1, seq2, size, i, acc) ==
    IF ~(i < Len(seq1)) THEN acc
    ELSE PartitionLoop(seq1, seq2, size, i + size,
             Append(acc, <<Slice(seq1, i, i + size), Slice(seq2, i, i + size)>>))

\* The loop never ends when i cannot advance: i stays 0 < seq1.length and
\* the chunk list grows without bound.
LoopDiverges(seq1, size) == Len(seq1) > 0 /\ size = 0

Partition(seq1, seq2, size) == PartitionLoop(seq1, seq2, size, 0, <<>>)

MISMATCH_COLOR == "#ffb6b6"
TRANSPARENT == "transparent"

\* COLOR_MAP, entry by entry
COLOR_MAP ==
    << <<"C", "#FFEA00">>, <<"G", "#C4C4C4">>,
       <<"D", "#FC9CAC">>, <<"E", "#FC9CAC">>,
       <<"K", "#BB99FF">>, <<"R", "#BB99FF">>,
       <<"S", "#80BFFF">>, <<"T", "#80BFFF">>, <<"H", "#80BFFF">>,
       <<"Q", "#80BFFF">>, <<"N", "#80BFFF">>,
       <<"A", "#67E4A6">>, <<"I", "#67E4A6">>, <<"L", "#67E4A6">>,
       <<"M", "#67E4A6">>, <<"F", "#67E4A6">>, <<"W", "#67E4A6">>,
       <<"Y", "#67E4A6">>, <<"V", "#67E4A6">>, <<"P", "#67E4A6">> >>

\* COLOR_MAP[char]: the value of the entry with that key, or undefined
ColorMapGet(char) ==
    IF \E k \in 1..Len(COLOR_MAP) : COLOR_MAP[k][1] = char
    THEN COLOR_MAP[CHOOSE k \in 1..Len(COLOR_MAP) : COLOR_MAP[k][1] = char][2]
    ELSE Undefined

\* COLOR_MAP[char] without the || "transparent" fallback
Seq1ColorNoFallback(char) == ColorMapGet(char)

\* COLOR_MAP[char] || "transparent"
Seq1Color(char) ==
    IF ColorMapGet(char) = Undefined THEN TRANSPARENT ELSE ColorMapGet(char)

\* background colours of the first row of a chunk
Seq1Colors(chunk) ==
    LET s1 == chunk[1]
    IN  [j \in 1..Len(s1) |-> Seq1Color(CharAt(s1, j - 1))]

\* the seq2 row comparing each character with the first one of the seq1 chunk
Seq2ColorsFirstChar(chunk) ==
    LET s1 == chunk[1]
        s2 == chunk[2]
    IN  [j \in 1..Len(s2) |->
            IF CharAt(s2, j - 1) # CharAt(s1, 0)
            THEN MISMATCH_COLOR ELSE TRANSPARENT]

\* the background of the seq2 row of one chunk: s2[i] !== s1[i]
Seq2Colors(chunk) ==
    LET s1 == chunk[1]
        s2 == chunk[2]
    IN  [j \in 1..Len(s2) |->
            IF CharAt(s2, j - 1) # CharAt(s1, j - 1)
            THEN MISMATCH_COLOR ELSE TRANSPARENT]


-----------------------------------------------------------------------------
(* Inputs of the environment *)

\* what the user may have typed into a field when a submission is attempted
FieldValues == { <<>>, <<"a","-">>, <<"A","c">>, <<"A","B">>, <<"-","c","D">> }

\* clientWidth values of the box, in px
Widths == {0, 18, 38, 50, 380}

\* window.getSelection()?.toString(): NoString when getSelection() returns null
Selections == { NoString, <<>>, <<"\n">>, <<"A","C","\n","D","E">>,
                <<"\n","A","\n","\n">> }

\* outcome of the promise returned by navigator.clipboard.writeText
WriteOutcomes == {"ok", "rejected"}

\* time that may pass between two steps, in ms
Delays == {50, 100}

-----------------------------------------------------------------------------
(* AlignmentBlock: render *)

\* A render of AlignmentBlock with the given props and state: the phase it
\* ends in and the chunk list it commits.
RenderPhase(pair, size) ==
    IF LoopDiverges(pair.seq1, size) THEN "hung" ELSE "live"

RenderChunks(pair, size) ==
    IF LoopDiverges(pair.seq1, size) THEN chunks
    ELSE Partition(pair.seq1, pair.seq2, size)

\* The observed box changes size when its width changes or when a render
\* changes the number of chunk rows; the ResizeObserver then has an
\* observation to deliver.
HeightChanged(newChunks) == Len(newChunks) # Len(chunks)

-----------------------------------------------------------------------------
(* AlignmentBlock: updateChunkSize *)

\* boxRef.current?.clientWidth || 0
MeasuredWidth == IF phase \in {"rendered", "live"} THEN width ELSE 0

\* Math.ceil in place of Math.floor
NewChunkSizeCeil(w) == (w + CHAR_WIDTH - 1) \div CHAR_WIDTH

\* Math.floor(width / 19)
NewChunkSize(w) == w \div CHAR_WIDTH

\* the updater with its branches swapped: prev where the value differs
SetChunkSizeKeep(prev, newChunkSize) ==
    IF prev # newChunkSize THEN prev ELSE newChunkSize

\* setChunkSize((prev) => (prev !== newChunkSize ? newChunkSize : prev))
SetChunkSize(prev, newChunkSize) ==
    IF prev # newChunkSize THEN newChunkSize ELSE prev

\* updateChunkSize() followed by the re-render it causes.  After teardown
\* the state update is dropped.  `by` is "eager" for the call made by the
\* effect and "debounced" for the call made by lodash.
UpdateChunkSize(by) ==
    LET size == SetChunkSize(chunkSize, NewChunkSize(MeasuredWidth))
    IN  /\ lastRun' = [by |-> by, events |-> burst, changed |-> size # chunkSize]
        /\ IF phase \in {"rendered", "live"}
           THEN /\ chunkSize' = size
                /\ chunks' = RenderChunks(aligned, size)
                /\ phase' = RenderPhase(aligned, size)
           ELSE UNCHANGED renderVars

-----------------------------------------------------------------------------
(* App: the form *)

sameLength(seq1, seq2) == Len(seq1) = Len(seq2)

\* the button disabled for an empty field only
SubmitDisabledNoLength(seq1, seq2) == seq1 = <<>> \/ seq2 = <<>>

\* disabled={!sameLength || !seq1 || !seq2}
SubmitDisabled(seq1, seq2) ==
    ~sameLength(seq1, seq2) \/ seq1 = <<>> \/ seq2 = <<>>

\* rules={{ required: true, pattern: AMINO_REGEX }}
FieldValid(v) == v # <<>> /\ AMINO_REGEX(v)

\* onSubmit(data)
OnSubmit(data) ==
    [seq1 |-> ToUpperCase(data.seq1), seq2 |-> ToUpperCase(data.seq2)]

\* The user presses the submit button with seq1, seq2 in the two fields.
\* A disabled button does nothing, handleSubmit calls onSubmit only when
\* both fields pass their rules, and setAligned re-renders AlignmentBlock.
SubmitAttempt(seq1, seq2) ==
    /\ phase \in {"form", "live"}
    /\ IF ~SubmitDisabled(seq1, seq2) /\ FieldValid(seq1) /\ FieldValid(seq2)
       THEN LET pair == OnSubmit([seq1 |-> seq1, seq2 |-> seq2])
                next == RenderChunks(pair, chunkSize)
            IN  /\ aligned' = pair
                /\ chunks' = next
                /\ phase' = IF phase = "form" THEN "rendered"
                            ELSE RenderPhase(pair, chunkSize)
                /\ obsPending' = (obsPending \/ (observing /\ HeightChanged(next)))
       ELSE UNCHANGED <<aligned, chunks, phase, obsPending>>
    /\ UNCHANGED <<copied, copyTimer, chunkSize, width, observing,
                   debounceVars, clipVars, lastRun, cancelled>>

-----------------------------------------------------------------------------
(* AlignmentBlock: the effect, the observer and the debounced update *)

\* the effect without the eager updateChunkSize() call: it only subscribes
MountEffectNoEager ==
    /\ phase = "rendered"
    /\ observing' = TRUE
    /\ obsPending' = TRUE
    /\ phase' = "live"
    /\ UNCHANGED <<appVars, chunkSize, chunks, width, debounceVars, clipVars,
                   lastRun, cancelled>>

\* The effect of AlignmentBlock, run once after the first render:
\* observer.observe(boxRef.current), whose first observation is pending
\* from then on, and the eager updateChunkSize().
MountEffect ==
    /\ phase = "rendered"
    /\ observing' = TRUE
    /\ obsPending' = TRUE
    /\ UpdateChunkSize("eager")
    /\ UNCHANGED <<appVars, width, debounceVars, clipVars, cancelled>>

\* The environment changes the width of the box.
ContainerResize(w) ==
    /\ phase # "hung"
    /\ w # width
    /\ width' = w
    /\ obsPending' = observing
    /\ UNCHANGED <<appVars, renderVars, observing, debounceVars, clipVars,
                   lastRun, cancelled>>

\* lodash invoking at every expiry of the timer
ShouldInvokeAlways == TRUE

\* lodash debounce, shouldInvoke(time)
ShouldInvoke == dSince = NoTimer \/ dSince >= DEBOUNCE_WAIT

\* The observer delivers an observation: debouncedUpdate() is called, which
\* records the call and starts the timer unless one is pending.
DeliverResize ==
    /\ phase \notin {"hung", "rendered"}
    /\ observing /\ obsPending
    /\ burst < MaxBurst
    /\ obsPending' = FALSE
    /\ dArgs' = TRUE
    /\ dSince' = 0
    /\ dTimer' = IF dTimer = NoTimer THEN DEBOUNCE_WAIT ELSE dTimer
    /\ burst' = burst + 1
    /\ UNCHANGED <<appVars, renderVars, width, observing, clipVars, lastRun,
                   cancelled>>

\* lodash debounce, timerExpired(): the trailing edge invokes
\* updateChunkSize, otherwise the timer is restarted for the remaining wait.
TimerExpired ==
    /\ phase \notin {"hung", "rendered"}
    /\ dTimer = 0
    /\ IF ShouldInvoke
       THEN /\ dTimer' = NoTimer
            /\ dArgs' = FALSE
            /\ burst' = 0
            /\ IF dArgs
               THEN /\ UpdateChunkSize("debounced")
                    /\ obsPending' = (obsPending \/ (observing /\ HeightChanged(chunks')))
               ELSE UNCHANGED <<renderVars, obsPending, lastRun>>
            /\ UNCHANGED dSince
       ELSE /\ dTimer' = DEBOUNCE_WAIT - dSince
            /\ UNCHANGED <<dArgs, burst, dSince, renderVars, obsPending, lastRun>>
    /\ UNCHANGED <<appVars, width, observing, clipVars, cancelled>>

-----------------------------------------------------------------------------
(* AlignmentBlock: copy *)

\* replace(/\n/, "") without the g flag: only the first line break goes
ReplaceFirstNewline(s) ==
    IF \E k \in 1..Len(s) : s[k] = "\n"
    THEN LET k == CHOOSE k \in 1..Len(s) :
                      s[k] = "\n" /\ \A j \in 1..(k - 1) : s[j] # "\n"
         IN  SubSeq(s, 1, k - 1) \o SubSeq(s, k + 1, Len(s))
    ELSE s

\* String.prototype.replace(/\n/g, "")
RECURSIVE ReplaceNewlines(_)
ReplaceNewlines(s) ==
    IF s = <<>> THEN <<>>
    ELSE IF Head(s) = "\n" THEN ReplaceNewlines(Tail(s))
    ELSE <<Head(s)>> \o ReplaceNewlines(Tail(s))

\* window.getSelection()?.toString().replace(/\n/g, "")
StrippedSelection(sel) == IF sel = NoString THEN NoString ELSE ReplaceNewlines(sel)

\* if (selection !== undefined): the empty string passes
TruthyDefined(selection) == selection # NoString

\* if (selection): undefined and "" are falsy
Truthy(selection) == selection # NoString /\ selection # <<>>

\* a write that is repeated until it succeeds
WriteTextRetry(selection, outcome) == selection

\* navigator.clipboard.writeText(selection): the clipboard's text once the
\* promise has settled; a rejected write leaves the clipboard as it was
WriteText(selection, outcome) ==
    IF outcome = "ok" THEN selection ELSE clipboard

\* onCopy: setCopied(true), and the [copied] effect when the flag changes
OnCopy ==
    /\ copied' = TRUE
    /\ copyTimer' = IF copied THEN copyTimer ELSE COPIED_TIMEOUT

\* handleMouseUp with the current selection and the outcome of the write
HandleMouseUp(sel, outcome) ==
    /\ phase = "live"
    /\ LET selection == StrippedSelection(sel)
       IN  IF Truthy(selection)
           THEN /\ lastWrite' = selection
                /\ clipboard' = WriteText(selection, outcome)
                /\ OnCopy
                /\ lastMouseUp' = "copied"
           ELSE /\ UNCHANGED <<lastWrite, clipboard, copied, copyTimer>>
                /\ lastMouseUp' = "skipped"
    /\ UNCHANGED <<aligned, renderVars, width, observerVars, debounceVars,
                   lastRun, cancelled>>

\* setTimeout(() => setCopied(false), 1000) fires
CopyTimerFired ==
    /\ phase # "hung"
    /\ copyTimer = 0
    /\ copied' = FALSE
    /\ copyTimer' = NoTimer
    /\ UNCHANGED <<aligned, renderVars, width, observerVars, debounceVars,
                   clipVars, lastRun, cancelled>>

-----------------------------------------------------------------------------
(* Teardown *)

\* the cleanup without debouncedUpdate.cancel()
EffectCleanupNoCancel ==
    /\ observing' = FALSE
    /\ obsPending' = FALSE
    /\ cancelled' = FALSE
    /\ UNCHANGED debounceVars

\* cleanup of the AlignmentBlock effect: observer.disconnect() and
\* debouncedUpdate.cancel()
EffectCleanup ==
    /\ observing' = FALSE
    /\ obsPending' = FALSE
    /\ cancelled' = (dTimer # NoTimer)
    /\ dTimer' = NoTimer
    /\ dSince' = NoTimer
    /\ dArgs' = FALSE
    /\ burst' = 0

\* a [copied] effect that returns no cleanup: the timer stays armed
CopiedCleanupNone == UNCHANGED copyTimer

\* cleanup of the [copied] effect: clearTimeout(timer)
CopiedCleanup == copyTimer' = NoTimer

\* App is unmounted; the effect of AlignmentBlock has a cleanup only once
\* it has run.
Unmount ==
    /\ phase \in {"form", "live"}
    /\ phase' = "unmounted"
    /\ IF phase = "live" THEN EffectCleanup
       ELSE UNCHANGED <<observerVars, debounceVars, cancelled>>
    /\ CopiedCleanup
    /\ UNCHANGED <<aligned, copied, chunkSize, chunks, width, clipVars, lastRun>>

-----------------------------------------------------------------------------
(* Time *)

Elapse(t, d) == IF t = NoTimer THEN NoTimer ELSE t - d

\* d ms pass; no timer is due before that
Advance(d) ==
    /\ phase \notin {"hung", "rendered"}
    /\ dTimer = NoTimer \/ d <= dTimer
    /\ copyTimer = NoTimer \/ d <= copyTimer
    /\ dTimer' = Elapse(dTimer, d)
    /\ copyTimer' = Elapse(copyTimer, d)
    /\ dSince' = IF dSince = NoTimer THEN NoTimer
                 ELSE Min(dSince + d, DEBOUNCE_WAIT)
    /\ UNCHANGED <<aligned, copied, renderVars, width, observerVars, dArgs,
                   burst, clipVars, lastRun, cancelled>>

-----------------------------------------------------------------------------
(* The application *)

Init ==
    /\ phase = "form"
    /\ aligned = Null
    /\ copied = FALSE
    /\ copyTimer = NoTimer
    /\ chunkSize = DEFAULT_CHUNK_SIZE
    /\ chunks = <<>>
    /\ width \in Widths
    /\ observing = FALSE
    /\ obsPending = FALSE
    /\ dTimer = NoTimer
    /\ dSince = NoTimer
    /\ dArgs = FALSE
    /\ clipboard = <<>>
    /\ lastWrite = NoString
    /\ lastMouseUp = "none"
    /\ burst = 0
    /\ lastRun = Null
    /\ cancelled = FALSE

\* The resize side: the form, the renderer's effect, the observer, the
\* debounced update and teardown.
NextResize ==
    \/ \E seq1 \in FieldValues, seq2 \in FieldValues : SubmitAttempt(seq1, seq2)
    \/ MountEffect
    \/ \E w \in Widths : ContainerResize(w)
    \/ DeliverResize
    \/ TimerExpired
    \/ Unmount
    \/ \E d \in Delays : Advance(d)

\* The copy side: the form, the renderer's effect, copying a selection, the
\* notification timer and teardown.
NextCopy ==
    \/ \E seq1 \in FieldValues, seq2 \in FieldValues : SubmitAttempt(seq1, seq2)
    \/ MountEffect
    \/ \E sel \in Selections, outcome \in WriteOutcomes : HandleMouseUp(sel, outcome)
    \/ CopyTimerFired
    \/ Unmount
    \/ \E d \in Delays : Advance(d)

Next == NextResize \/ NextCopy

\* The whole application.
Spec == Init /\ [][Next]_vars

\* The two sides share only `phase` and the clock: the copy actions leave the
\* variables of the resize side unchanged and the other way round, so each
\* side is checked on its own.
SpecResize == Init /\ [][NextResize]_vars

SpecCopy == Init /\ [][NextCopy]_vars

\* Copies, resubmissions and resize events together, on a few inputs, with
\* the scheduling of the browser: a committed render is followed by its
\* effect, time passes, and a timer that is due fires.
NotifyFields == { <<"A","c">>, <<"a","-">> }
NotifyWidths == {18, 38}
NotifySelections == { <<"A","C","\n","D","E">> }

InitNotify == Init /\ width \in NotifyWidths

NextNotify ==
    \/ \E seq1 \in NotifyFields, seq2 \in NotifyFields : SubmitAttempt(seq1, seq2)
    \/ MountEffect
    \/ \E w \in NotifyWidths : ContainerResize(w)
    \/ DeliverResize
    \/ TimerExpired
    \/ \E sel \in NotifySelections : HandleMouseUp(sel, "ok")
    \/ CopyTimerFired
    \/ Unmount
    \/ \E d \in Delays : Advance(d)

TimersFire ==
    /\ WF_vars(MountEffect)
    /\ WF_vars(TimerExpired)
    /\ WF_vars(CopyTimerFired)
    /\ WF_vars(\E d \in Delays : Advance(d))

SpecNotify == InitNotify /\ [][NextNotify]_vars /\ TimersFire

-----------------------------------------------------------------------------
(* The partition loop on its own: AlignmentBlock is rendered once with any  *)
(* pair of equal-length strings and any positive chunk size.                *)

ChunkAlphabet == {"A", "C", "-"}

EqualLengthPairs ==
    { p \in [seq1 : StringsUpTo(ChunkAlphabet, MaxLen),
             seq2 : StringsUpTo(ChunkAlphabet, MaxLen)] :
        Len(p.seq1) = Len(p.seq2) }

InitChunks ==
    /\ phase = "render"
    /\ aligned \in EqualLengthPairs
    /\ chunkSize \in 1..MaxChunk
    /\ chunks = <<>>
    /\ copied = FALSE
    /\ copyTimer = NoTimer
    /\ width = 0
    /\ observing = FALSE
    /\ obsPending = FALSE
    /\ dTimer = NoTimer
    /\ dSince = NoTimer
    /\ dArgs = FALSE
    /\ clipboard = <<>>
    /\ lastWrite = NoString
    /\ lastMouseUp = "none"
    /\ burst = 0
    /\ lastRun = Null
    /\ cancelled = FALSE

\* the body of AlignmentBlock up to the chunk list
Render ==
    /\ phase = "render"
    /\ chunks' = RenderChunks(aligned, chunkSize)
    /\ phase' = RenderPhase(aligned, chunkSize)
    /\ UNCHANGED <<appVars, chunkSize, width, observerVars, debounceVars,
                   clipVars, lastRun, cancelled>>

SpecChunks == InitChunks /\ [][Render]_vars

-----------------------------------------------------------------------------
(* Properties of the partition loop, under SpecChunks *)

Rendered == phase = "live"

RECURSIVE Concat(_)
Concat(ss) == IF ss = <<>> THEN <<>> ELSE Head(ss) \o Concat(Tail(ss))

Firsts(chs) == [k \in 1..Len(chs) |-> chs[k][1]]
Seconds(chs) == [k \in 1..Len(chs) |-> chs[k][2]]

\* C1: the first components of the chunks, concatenated in order, are seq1,
\* and the second components are seq2.
C1_RoundTrip ==
    Rendered =>
        /\ Concat(Firsts(chunks)) = aligned.seq1
        /\ Concat(Seconds(chunks)) = aligned.seq2

C1_Witness ==
    /\ Rendered
    /\ Len(chunks) >= 2
    /\ Len(aligned.seq1) % chunkSize # 0
    /\ aligned.seq1 # aligned.seq2

\* C2: the number of chunks is ceil(len(seq1) / chunkSize), 0 for the empty
\* string.
C2_ChunkCount ==
    Rendered =>
        Len(chunks) = (Len(aligned.seq1) + chunkSize - 1) \div chunkSize

C2_Witness ==
    /\ Rendered
    /\ Len(chunks) = 2
    /\ Len(aligned.seq1) = 3
    /\ chunkSize = 2

\* C3: the two parts of a chunk have the same length and are the same index
\* range of seq1 and of seq2; every chunk but the last is chunkSize long, the
\* last is (len mod chunkSize) long when that is not 0 and chunkSize long
\* otherwise; no chunk is empty.
C3_ChunkShape ==
    Rendered =>
        \A k \in 1..Len(chunks) :
            LET from == (k - 1) * chunkSize
                n    == Len(chunks[k][1])
                rest == Len(aligned.seq1) % chunkSize
            IN  /\ Len(chunks[k][2]) = n
                /\ n > 0
                /\ chunks[k][1] = SubSeq(aligned.seq1, from + 1, from + n)
                /\ chunks[k][2] = SubSeq(aligned.seq2, from + 1, from + n)
                /\ k < Len(chunks) => n = chunkSize
                /\ k = Len(chunks) =>
                       n = IF rest # 0 THEN rest ELSE chunkSize

C3_Witness ==
    /\ Rendered
    /\ Len(chunks) = 2
    /\ Len(chunks[1][1]) = 2
    /\ Len(chunks[2][1]) = 1
    /\ chunks[2][1] # chunks[2][2]

\* C4: the highlight of the seq2 character at position i, computed inside
\* the chunk that holds i at the local offset, is the mismatch colour exactly
\* when seq2[i] differs from seq1[i] in the full strings.
C4_MismatchInvariance ==
    Rendered =>
        \A i \in 0..(Len(aligned.seq2) - 1) :
            LET colors == Seq2Colors(chunks[(i \div chunkSize) + 1])
            IN  (colors[(i % chunkSize) + 1] = MISMATCH_COLOR)
                    <=> (aligned.seq2[i + 1] # aligned.seq1[i + 1])

C4_Witness ==
    /\ Rendered
    /\ Len(chunks) >= 2
    /\ aligned.seq2[1] = aligned.seq1[1]
    /\ aligned.seq2[Len(aligned.seq2)] # aligned.seq1[Len(aligned.seq1)]
    /\ aligned.seq2[Len(aligned.seq2)] = aligned.seq1[1]


-----------------------------------------------------------------------------
(* Properties of the resize side, under SpecResize *)

\* a step in which lodash executes updateChunkSize
DebouncedRunStep == TimerExpired /\ dArgs /\ ~dArgs'

\* a step in which the effect executes updateChunkSize
EagerRunStep == MountEffect

\* C5: the resize events delivered since the last debounced execution keep
\* one timer pending that never outlasts 150 ms from the last event; the
\* debounced execution happens only when 150 ms have passed since the last
\* event, and it consumes the whole burst, which nothing else but teardown
\* does: one execution per burst, timed from its last event.
C5_DebounceCoalescing ==
    /\ [](burst >= 1 =>
             /\ dTimer # NoTimer
             /\ dSince # NoTimer
             /\ dSince + dTimer <= DEBOUNCE_WAIT)
    /\ [][DebouncedRunStep =>
             /\ dSince = DEBOUNCE_WAIT
             /\ burst >= 1
             /\ burst' = 0
             /\ lastRun' = [by |-> "debounced", events |-> burst,
                            changed |-> chunkSize' # chunkSize]]_vars
    /\ [][burst' < burst => DebouncedRunStep \/ phase' = "unmounted"]_vars
    /\ [][lastRun' # lastRun => DebouncedRunStep \/ EagerRunStep]_vars

C5_Witness ==
    /\ phase = "live"
    /\ lastRun # Null
    /\ lastRun.by = "debounced"
    /\ lastRun.events >= 2
    /\ burst = 0
    /\ dTimer = NoTimer

\* C6: the partition loop ends for every measured width.
C6_NoHang == phase # "hung"

\* the alphabet of an accepted sequence
Alphabet == {"A","R","N","D","C","E","Q","G","H","I","L","K","M","F","P",
             "S","T","W","Y","V","-"}

WellFormed(s) ==
    /\ Len(s) >= 1
    /\ \A k \in 1..Len(s) : s[k] \in Alphabet

\* the letters of the alphabet in lower case
LowerAlphabet == {"a","r","n","d","c","e","q","g","h","i","l","k","m","f",
                  "p","s","t","w","y","v"}

\* a submission that must not be accepted: an empty field, unequal lengths
\* or a character that is no letter of the alphabet in either case
Malformed(seq1, seq2) ==
    \/ seq1 = <<>>
    \/ seq2 = <<>>
    \/ Len(seq1) # Len(seq2)
    \/ \E k \in 1..Len(seq1) : seq1[k] \notin Alphabet \cup LowerAlphabet
    \/ \E k \in 1..Len(seq2) : seq2[k] \notin Alphabet \cup LowerAlphabet

MalformedPairs ==
    { p \in FieldValues \X FieldValues : Malformed(p[1], p[2]) }

\* C7: `aligned` is null or a pair of non-empty, equally long, upper-case
\* strings over the alphabet; no step that changes `aligned` or what the
\* renderer shows is a malformed submission, and `aligned` changes only by
\* a submission that is not malformed.
C7_AcceptedPair ==
    /\ [](aligned # Null =>
             /\ WellFormed(aligned.seq1)
             /\ WellFormed(aligned.seq2)
             /\ Len(aligned.seq1) = Len(aligned.seq2))
    /\ [][(aligned' # aligned \/ chunks' # chunks \/ phase' # phase) =>
             \A p \in MalformedPairs : ~SubmitAttempt(p[1], p[2])]_vars
    /\ [][aligned' # aligned =>
             \E p \in (FieldValues \X FieldValues) \ MalformedPairs :
                 SubmitAttempt(p[1], p[2])]_vars

C7_Witness ==
    /\ phase = "live"
    /\ aligned # Null
    /\ aligned.seq1 = <<"-","C","D">>
    /\ aligned.seq2 = <<"-","C","D">>
    /\ Len(chunks) = 2

\* C8: an execution of updateChunkSize that finds floor(width / 19) equal to
\* the chunk size leaves the chunk size and the chunk list as they are.
C8_IdempotentUpdate ==
    [][(DebouncedRunStep \/ EagerRunStep) /\ (width \div CHAR_WIDTH) = chunkSize =>
          /\ chunkSize' = chunkSize
          /\ chunks' = chunks
          /\ ~lastRun'.changed]_vars

C8_Witness ==
    /\ phase = "live"
    /\ lastRun # Null
    /\ lastRun.by = "debounced"
    /\ ~lastRun.changed
    /\ chunkSize = width \div CHAR_WIDTH
    /\ Len(chunks) >= 2

\* C9: after teardown the observer is disconnected, no debounce timer is
\* pending and updateChunkSize is not executed again, whatever the box does.
C9_Teardown ==
    /\ [](phase = "unmounted" =>
             /\ ~observing
             /\ ~obsPending
             /\ dTimer = NoTimer
             /\ ~dArgs)
    /\ [][phase = "unmounted" =>
             /\ lastRun' = lastRun
             /\ chunkSize' = chunkSize
             /\ ~DebouncedRunStep
             /\ ~DeliverResize]_vars

C9_Witness ==
    /\ phase = "unmounted"
    /\ cancelled
    /\ lastRun # Null
    /\ width \div CHAR_WIDTH # chunkSize

-----------------------------------------------------------------------------
(* Properties of the copy side, under SpecCopy *)

NotLineBreak(c) == c # "\n"

\* C10: a pointer release with a selection that is not empty once its line
\* breaks are removed writes the selection without its line breaks, the
\* other characters in order, and raises the notification.
C10_CopyStripsLineBreaks ==
    [][\A sel \in Selections \ {NoString}, outcome \in WriteOutcomes :
          HandleMouseUp(sel, outcome) /\ SelectSeq(sel, NotLineBreak) # <<>> =>
              /\ lastWrite' = SelectSeq(sel, NotLineBreak)
              /\ outcome = "ok" => clipboard' = SelectSeq(sel, NotLineBreak)
              /\ copied']_vars

C10_Witness ==
    /\ lastWrite = <<"A","C","D","E">>
    /\ clipboard = <<"A","C","D","E">>
    /\ copied

\* a handleMouseUp whose selection is absent, empty, or only line breaks
EmptySelections ==
    { sel \in Selections : sel = NoString \/ SelectSeq(sel, NotLineBreak) = <<>> }

\* C11: when the current selection is absent, empty, or empty once its line
\* breaks are removed, handleMouseUp writes nothing to the clipboard and does
\* not signal the notification: the clipboard, the last write, the copied
\* flag and the pending dismiss timer are all as they were before.
C11_CopyNoOp ==
    [][\A sel \in EmptySelections : \A outcome \in WriteOutcomes :
           HandleMouseUp(sel, outcome) =>
              /\ clipboard' = clipboard
              /\ lastWrite' = lastWrite
              /\ copied' = copied
              /\ copyTimer' = copyTimer]_vars

\* a selection of line breaks only was released while a notification was
\* showing and the clipboard held an earlier copy
C11_Witness ==
    /\ lastMouseUp = "skipped"
    /\ copied
    /\ copyTimer \in 1..(COPIED_TIMEOUT - 1)
    /\ clipboard = <<"A","C","D","E">>

\* a handleMouseUp that writes a non-empty selection and calls onCopy
CopyStep ==
    \E sel \in Selections \ EmptySelections : \E outcome \in WriteOutcomes :
        HandleMouseUp(sel, outcome)

\* C12: every copy, one made while the notification of an earlier copy is
\* still showing included, arms the dismiss timer anew, so the notification
\* is dismissed 1000 ms after the most recent copy.
C12_Rearm ==
    [][CopyStep => copyTimer' = COPIED_TIMEOUT]_vars

-----------------------------------------------------------------------------
(* Properties of the mount and of the chunk size, under SpecResize *)

\* C13: the eager updateChunkSize() of the mount effect runs before every
\* debounced execution: until it has run no debounced call is pending, the
\* first execution is the eager one, and a debounced execution, the one for
\* the observation that follows the subscription included, finds it done.
C13_EagerFirst ==
    /\ [](lastRun = Null => dTimer = NoTimer /\ ~dArgs /\ burst = 0)
    /\ [][lastRun = Null /\ lastRun' # Null => lastRun'.by = "eager"]_vars
    /\ [][DebouncedRunStep => lastRun # Null /\ phase = "live"]_vars

\* the first observation after the subscription was delivered and its
\* debounced execution ran, after the eager one
C13_Witness ==
    /\ phase = "live"
    /\ lastRun # Null
    /\ lastRun.by = "debounced"
    /\ lastRun.events = 1
    /\ ~obsPending

\* C14: the first chunk list that the renderer produces for an accepted
\* pair is cut with floor(width / 19) of the measured width, never with the
\* default chunk size.
C14_InitialMeasured ==
    phase = "rendered" => chunkSize = width \div CHAR_WIDTH

\* C15: every execution of updateChunkSize, eager or debounced, leaves the
\* chunk size at floor(width / 19) of the width it measures; width 0 gives 0.
C15_ChunkSizeFormula ==
    [][(EagerRunStep \/ DebouncedRunStep) =>
          chunkSize' = width \div CHAR_WIDTH]_vars

\* an execution measured a box of width 0 and set the chunk size to 0
C15_Witness ==
    /\ lastRun # Null
    /\ lastRun.changed
    /\ width = 0
    /\ chunkSize = 0

-----------------------------------------------------------------------------
(* Properties of the notification timer and of the first row, under SpecCopy *)

\* C16: the dismiss timer is armed when a copy raises the copied flag and is
\* cleared when the flag changes or the application is unmounted: a timer is
\* pending only while the flag is up and the application mounted, never more
\* than the one armed by the copy, and after teardown no timer fires and the
\* flag is not set again.
C16_TimerClearing ==
    /\ [](copyTimer # NoTimer => copied /\ phase # "unmounted")
    /\ [][~copied /\ copied' => copyTimer' = COPIED_TIMEOUT]_vars
    /\ [][copied /\ ~copied' => copyTimer' = NoTimer]_vars
    /\ [][phase = "unmounted" => copied' = copied /\ copyTimer' = NoTimer]_vars

\* the application was unmounted while the notification of a copy was
\* showing, and its timer was cleared
C16_Witness ==
    /\ phase = "unmounted"
    /\ lastMouseUp = "copied"
    /\ copied
    /\ copyTimer = NoTimer

\* a handleMouseUp whose write of a non-empty selection is rejected
RejectedCopyStep ==
    \E sel \in Selections \ EmptySelections : HandleMouseUp(sel, "rejected")

\* C17: a rejected clipboard write is not fatal: it is not retried (the
\* clipboard keeps its content), the handler completes, the application
\* stays live and the accepted pair, the chunk size and the chunk list are
\* as they were.
C17_WriteFailure ==
    [][RejectedCopyStep =>
          /\ clipboard' = clipboard
          /\ aligned' = aligned
          /\ chunkSize' = chunkSize
          /\ chunks' = chunks
          /\ phase' = "live"]_vars

\* a write was rejected: the clipboard does not hold the selection, the
\* alignment is still rendered
C17_Witness ==
    /\ phase = "live"
    /\ lastMouseUp = "copied"
    /\ lastWrite = <<"A","C","D","E">>
    /\ clipboard = <<>>
    /\ Len(chunks) >= 1

\* characters that are no key of COLOR_MAP
Unmapped == {"-", "a", "c", "d", "e", "v", "B", "J", "O", "U", "X", "Z", "\n", " "}

\* C18: the first row's colour is the COLOR_MAP entry for each of the twenty
\* letters (A green, C yellow, D and E pink) and transparent for the gap
\* and every other character; in a rendered accepted pair every letter of
\* seq1 is coloured and exactly the gaps are transparent.
C18_ColorLookup ==
    /\ \A c \in Alphabet \ {"-"} :
           Seq1Color(c) \in {"#FFEA00", "#C4C4C4", "#FC9CAC", "#BB99FF",
                             "#80BFFF", "#67E4A6"}
    /\ Seq1Color("A") = "#67E4A6"
    /\ Seq1Color("C") = "#FFEA00"
    /\ Seq1Color("D") = "#FC9CAC"
    /\ Seq1Color("E") = "#FC9CAC"
    /\ \A c \in Unmapped : Seq1Color(c) = TRANSPARENT
    /\ phase \in {"rendered", "live"} =>
           \A i \in 1..Len(chunks) : \A j \in 1..Len(chunks[i][1]) :
               (Seq1Colors(chunks[i])[j] = TRANSPARENT) <=> (chunks[i][1][j] = "-")

\* "-CD" is rendered in two chunks: the gap transparent, C and D coloured
C18_Witness ==
    /\ phase = "live"
    /\ Len(chunks) = 2
    /\ Seq1Colors(chunks[1]) = <<TRANSPARENT, "#FFEA00">>
    /\ Seq1Colors(chunks[2]) = <<"#FC9CAC">>

-----------------------------------------------------------------------------
(* Quiescence of the resize side, under SpecResize *)

\* C19: whenever the renderer is mounted, every change of the box's width
\* has been delivered as a resize event and no debounce timer is pending,
\* the chunk size is floor(width / 19) of the current width: once a burst
\* has settled the chunk size is that of the final width.
C19_QuiescentConsistency ==
    (phase \in {"live", "hung"} /\ ~obsPending /\ dTimer = NoTimer) =>
        chunkSize = width \div CHAR_WIDTH

\* a burst of two or more events settled and its one execution changed the
\* chunk size to that of the final width
C19_Witness ==
    /\ phase = "live"
    /\ ~obsPending
    /\ dTimer = NoTimer
    /\ lastRun # Null
    /\ lastRun.by = "debounced"
    /\ lastRun.events >= 2
    /\ lastRun.changed
    /\ chunkSize = width \div CHAR_WIDTH

-----------------------------------------------------------------------------
(* The notification under copies, resubmissions and resizes, under SpecNotify *)

\* the notification is showing in a mounted application
NotificationShown == copied /\ phase # "unmounted"

\* C20: whenever the copied flag is up in the mounted application a dismiss
\* timer is pending, and with timers firing when due every notification
\* raised is eventually dismissed, whatever copies, resubmissions and resize
\* events come in between.
C20_NotificationDismissed ==
    /\ [](NotificationShown => copyTimer # NoTimer)
    /\ NotificationShown ~> ~NotificationShown

=============================================================================
